---------------------------- MODULE Spec2Model ----------------------------
(***************************************************************************)
(* Chunked streaming ingestion and record reassembly of                    *)
(* comfforts/cloudstorage: the producer goroutine of readFileChunks /      *)
(* readFileChunksGCP, the unbuffered channel chnkStream and the consumer   *)
(* processCSVStreamRecord with its carry buffer incompleteRecord.          *)
(*                                                                         *)
(* A byte is a one-character string, a byte slice a sequence of bytes, a   *)
(* CSV field a sequence of bytes and a CSV record a sequence of fields.    *)
(* Offsets are 0-based as in Go; sequences are 1-based, so the Go slice    *)
(* s[i:j] is SubSeq(s, i+1, j).                                            *)
(***************************************************************************)
EXTENDS Integers, Sequences, FiniteSets, TLC

\* ------------------------------------------------------------------ bounds
\* longest stream of the exhaustive input set
MaxLen == 3
\* largest buffer size tried (BUFFER_SIZE is 400 in the source; the model
\* draws it from 1..MaxBufSize so that chunk boundaries fall inside records)
MaxBufSize == 3
\* longest path of a storage request
MaxPathLen == 2
\* storage operations in one run
MaxOps == 2

\* ------------------------------------------------------------------- bytes
NL == "\n"
CR == "\r"
Quote == "\""
\* csvReader.Comma = '|'
Comma == "|"
\* the zero byte of a freshly made buffer
NUL == "NUL"
\* the record-length threshold of the boundary heuristic, len(record) < 8
MinFields == 8

Min(a, b) == IF a < b THEN a ELSE b

\* F applied to the value of x, with x evaluated once, like a Go local
\* variable assigned from a call
With(x, F(_)) == CHOOSE r \in {F(v) : v \in {x}} : TRUE

\* Go s[k:]
Drop(s, k) == SubSeq(s, k + 1, Len(s))

\* bytes.IndexByte, 1-based, 0 when absent (Go: 0-based, -1 when absent)
IndexByte(s, c) ==
  IF \E i \in 1..Len(s) : s[i] = c
  THEN CHOOSE i \in 1..Len(s) : s[i] = c /\ \A j \in 1..(i - 1) : s[j] # c
  ELSE 0

\* ------------------------------------------------- encoding/csv, as called
\* csv.lengthNL
lengthNL(b) == IF Len(b) > 0 /\ b[Len(b)] = NL THEN 1 ELSE 0

\* readLine: "For backwards compatibility, drop trailing \r before EOF"
dropCR(raw, atEOF) ==
  IF Len(raw) > 0 /\ atEOF /\ raw[Len(raw)] = CR
  THEN SubSeq(raw, 1, Len(raw) - 1) ELSE raw

\* readLine: "Normalize \r\n to \n on all input lines"
normCRLF(line) ==
  IF Len(line) >= 2 /\ line[Len(line) - 1] = CR /\ line[Len(line)] = NL
  THEN SubSeq(line, 1, Len(line) - 2) \o <<NL>> ELSE line

\* readLine, given the bytes raw that ReadSlice('\n') returned and whether
\* it stopped at the end of the input: io.EOF only when nothing was read
lineOf(raw, atEOF, off) ==
  [line |-> normCRLF(dropCR(raw, atEOF)),
   err |-> IF atEOF /\ Len(raw) = 0 THEN "EOF" ELSE "nil",
   off |-> off + Len(raw)]

\* ReadSlice('\n') on the unread input rest, i the index of its first '\n'
readSlice(rest, i, off) ==
  With(IF i > 0 THEN SubSeq(rest, 1, i) ELSE rest, LAMBDA raw : lineOf(raw, i = 0, off))

\* csv.Reader.readLine with the reader at input offset off: the line up to
\* and including the next '\n' (or the rest of the input) and the new offset
readLine(data, off) ==
  With(Drop(data, off), LAMBDA rest : readSlice(rest, IndexByte(rest, NL), off))

\* one step of the parseField loop of csv.Reader.readRecord (LazyQuotes
\* false, TrimLeadingSpace false, FieldsPerRecord -1) is either the end of
\* the record (Done, with the reader's offset) or the loop going on (More) with the unparsed rest of
\* the line, the reader's offset, the fields completed so far, whether it is
\* inside a quoted field, and that field's content so far
Done(record, err, off) == [done |-> TRUE, record |-> record, err |-> err, off |-> off]
More(line, off, fields, inQuoted, cur) ==
  [done |-> FALSE, line |-> line, off |-> off, fields |-> fields,
   inQuoted |-> inQuoted, cur |-> cur]

\* a non-quoted field: up to the next Comma (at i) or the end of the line; a
\* quote inside it is ErrBareQuote
plainField(line, off, fields, i, field) ==
  IF IndexByte(field, Quote) > 0
  THEN Done(fields, "ErrBareQuote", off)
  ELSE IF i > 0
  THEN More(Drop(line, i), off, Append(fields, field), FALSE, <<>>)
  ELSE Done(Append(fields, field), "nil", off)

\* inside a quoted field, after a quote: cur is the field up to that quote,
\* rest what follows it: "" is an escaped quote, ", ends the field, a quote
\* at the end of the line ends the record, anything else is ErrQuote
afterQuote(off, fields, cur, rest) ==
  IF Len(rest) > 0 /\ rest[1] = Quote
  THEN More(Drop(rest, 1), off, fields, TRUE, Append(cur, Quote))
  ELSE IF Len(rest) > 0 /\ rest[1] = Comma
  THEN More(Drop(rest, 1), off, Append(fields, cur), FALSE, <<>>)
  ELSE IF lengthNL(rest) = Len(rest)
  THEN Done(Append(fields, cur), "nil", off)
  ELSE Done(fields, "ErrQuote", off)

\* inside a quoted field: q is the index of the next quote of the line; with
\* none the field goes on with the next line l, and the end of the input
\* inside the field is ErrQuote
quotedField(line, off, fields, cur, q, l) ==
  IF q > 0
  THEN afterQuote(off, fields, cur \o SubSeq(line, 1, q - 1), Drop(line, q))
  ELSE IF Len(line) > 0
  THEN More(l.line, l.off, fields, TRUE, cur \o line)
  ELSE Done(fields, "ErrQuote", off)

parseStep(data, line, off, fields, inQuoted, cur) ==
  IF inQuoted
  THEN quotedField(line, off, fields, cur, IndexByte(line, Quote), readLine(data, off))
  ELSE IF Len(line) = 0 \/ line[1] # Quote
  THEN plainField(line, off, fields, IndexByte(line, Comma),
                  IF IndexByte(line, Comma) > 0
                  THEN SubSeq(line, 1, IndexByte(line, Comma) - 1)
                  ELSE SubSeq(line, 1, Len(line) - lengthNL(line)))
  ELSE More(Drop(line, 1), off, fields, TRUE, <<>>)

\* the parseField loop: the record, the error and the reader's offset
RECURSIVE parseField(_, _)
parseField(data, step) ==
  IF step.done
  THEN [record |-> step.record, err |-> step.err, off |-> step.off]
  ELSE With(parseStep(data, step.line, step.off, step.fields, step.inQuoted, step.cur),
            LAMBDA next : parseField(data, next))

\* csvReader.Read() with the reader at input offset off: skips empty lines,
\* returns io.EOF when the input is exhausted, else the record, the error and
\* the new csvReader.InputOffset(). skipEmpty is the loop that reads lines.
RECURSIVE csvRead(_, _)
skipEmpty(data, l) ==
  IF l.err = "nil" /\ Len(l.line) = lengthNL(l.line)
  THEN csvRead(data, l.off)
  ELSE IF l.err = "EOF"
  THEN [record |-> <<>>, err |-> "EOF", off |-> l.off]
  ELSE parseField(data, More(l.line, l.off, <<>>, FALSE, <<>>))

csvRead(data, off) == With(readLine(data, off), LAMBDA l : skipEmpty(data, l))

\* readCSVRecord: every record of data, and the first error other than io.EOF
RECURSIVE readAll(_, _, _)
collect(data, records, r) ==
  IF r.err # "nil"
  THEN [records |-> records, err |-> IF r.err = "EOF" THEN "nil" ELSE r.err]
  ELSE readAll(data, r.off, Append(records, r.record))

readAll(data, off, records) ==
  With(csvRead(data, off), LAMBDA r : collect(data, records, r))

readCSVRecord(data) == readAll(data, 0, <<>>)

\* ------------------------------------------------------------------ inputs
\* bytes of the exhaustive input set
Alphabet == {"a", Comma, NL, Quote}

\* every stream over Alphabet of length at most MaxLen
SmallStreams == UNION {[1..k -> Alphabet] : k \in 0..MaxLen}

\* a|b\nc|d\n, the stream of the spec's scenarios
StreamAB == <<"a", Comma, "b", NL, "c", Comma, "d", NL>>
\* a\na\na : three one-field records, the last without terminator
StreamThree == <<"a", NL, "a", NL, "a">>
\* a\nb\nc\n : three terminated one-field records
StreamABC == <<"a", NL, "b", NL, "c", NL>>
\* seven separators: a record of eight (empty) fields
Wide == <<Comma, Comma, Comma, Comma, Comma, Comma, Comma>>
\* a, then a 15-field record cut in two by a 9-byte chunk, then a blank line
StreamWide == <<"a", NL>> \o Wide \o Wide \o <<NL, NL>>
\* an 8-field record, a terminator, a one-field record: 9 bytes
StreamWideA == Wide \o <<NL, "a">>

\* one chunk of 13 bytes: a, a, an 8-field record, a blank line
StreamStale == <<"a", NL, "a", NL>> \o Wide \o <<NL, NL>>

\* a\r\n\r\na\r\n : two records and an empty line, with \r\n line ends
StreamCRLF == <<"a", CR, NL, CR, NL, "a", CR, NL>>

\* the (stream, buffer size) pairs a run is started with
Inputs ==
  [src : SmallStreams, bufSize : 1..MaxBufSize]
    \cup [src : {StreamAB}, bufSize : {3, 4}]
    \cup [src : {StreamThree, StreamABC}, bufSize : {3, 4, 6}]
    \cup [src : {StreamWide, StreamWideA \o StreamWideA}, bufSize : {9}]
    \cup [src : {StreamStale}, bufSize : {13}]
    \cup [src : {StreamCRLF}, bufSize : {3, 4}]

\* the reader the chunks come from: readFileChunks reads a local file,
\* readFileChunksGCP reads an object through the storage client
Local == "local"
Remote == "gcp"

\* the inputs that are also run through the remote reader
RemoteInputs == [src : {StreamAB, StreamThree}, bufSize : {3, 4}]

\* the readers an input is run through
Variants(in) == IF in \in RemoteInputs THEN {Local, Remote} ELSE {Local}

\* ------------------------------------------------------------------- state
VARIABLES
  src,              \* the bytes of the source file / object
  bufSize,          \* BUFFER_SIZE
  ppc,              \* producer goroutine: "open", "read", "send", "sendLast", "exit", "done"
  offset,           \* producer: offset of the next ReadAt
  buf,              \* producer: the buffer of the current read
  n,                \* producer: bytes returned by the last ReadAt
  readErr,          \* producer: the error returned by the last ReadAt
  bufId,            \* producer: identity of the array behind buf (the number
                    \* of make([]byte, BUFFER_SIZE) executed)
  variant,          \* which reader runs: Local or Remote
  cap,              \* the positional-read capability (the open file, the
                    \* storage client): "none", "open", "closed"
  closed,           \* chnkStream has been closed
  cancelled,        \* ctx.Done() is closed
  cpc,              \* consumer: "select", "parse", "done", "panic"
  chnkCnt,          \* consumer: chunks received
  chnk,             \* consumer: the chunk being parsed
  bufOffset,        \* consumer: csvReader.InputOffset() after the last record
  lastOffset,       \* consumer: the offset before the last record
  recCnt,           \* consumer: parse attempts on this chunk
  incompleteRecord, \* consumer: the carry buffer
  chnkBuf,          \* consumer: identity of the array chnk is a slice of
  carryBuf,         \* consumer: identity of the array incompleteRecord is a
                    \* slice of, 0 for memory of its own
  carryFrom,        \* consumer: index in that array where the carry starts
  \* history, not program state
  published,        \* the chunks the producer has put on a send, in order
  received,         \* the chunks the consumer has received, in order
  handled,          \* the calls of processCSVRecord: [rec, via, start]
  carryBase,        \* stream offset of the first byte of incompleteRecord
  closeCnt,         \* number of close(chnkStream) executed
  stopReason,       \* why the producer left its loop
  endedBy,          \* why the consumer returned
  parseErr,         \* some csv parse reported an error other than io.EOF
  handlerErr,       \* consumer: the error the last record handler call returned
  handlerFailed,    \* history: some record handler call returned an error
  errAt,            \* history: the chunks (by chnkCnt) whose record loop ended
                    \* on a parse error other than io.EOF
  \* the storage client
  req,              \* the CloudFileRequest of the run: [bucket, path, file]
  objects,          \* the objects of the storage service: <<bucket, name>> -> bytes
  ops               \* history: the calls made on the client and what they returned

pvars == <<ppc, offset, buf, n, closed, published, closeCnt, stopReason, readErr, bufId>>
\* the consumer's variables other than the two slices chnk and incompleteRecord
crest == <<cpc, chnkCnt, bufOffset, lastOffset, recCnt,
           received, handled, carryBase, endedBy, parseErr,
           handlerErr, handlerFailed, errAt, chnkBuf, carryBuf, carryFrom>>
cvars == <<chnk, incompleteRecord, crest>>
kvars == <<variant, cap>>
svars == <<req, objects, ops>>
pipevars == <<src, bufSize, cancelled, pvars, cvars, kvars>>
vars == <<src, bufSize, cancelled, pvars, cvars, kvars, svars>>

\* make([]byte, BUFFER_SIZE)
FreshBuf == [i \in 1..bufSize |-> NUL]

\* a bucket without objects
NoObjects == [k \in {} |-> <<>>]

\* CloudFileRequest{}
ZeroRequest == [bucket |-> <<>>, path |-> <<>>, file |-> <<>>]

\* a storage client nobody calls
StorageIdle ==
  /\ req = ZeroRequest
  /\ objects = NoObjects
  /\ ops = <<>>

\* the pipeline before its first step, started on the input in
PipelineInit(in) ==
  /\ src = in.src /\ bufSize = in.bufSize
  /\ ppc = "open" /\ offset = 0 /\ buf = <<>> /\ n = 0
  /\ closed = FALSE /\ cancelled = FALSE
  /\ cpc = "select" /\ chnkCnt = 0 /\ chnk = <<>>
  /\ bufOffset = 0 /\ lastOffset = 0 /\ recCnt = 0
  /\ incompleteRecord = <<>>
  /\ published = <<>> /\ received = <<>> /\ handled = <<>>
  /\ carryBase = 0 /\ closeCnt = 0
  /\ stopReason = "none" /\ endedBy = "none" /\ parseErr = FALSE
  /\ handlerErr = FALSE /\ handlerFailed = FALSE /\ errAt = {}
  /\ readErr = "nil" /\ bufId = 0
  /\ chnkBuf = 0 /\ carryBuf = 0 /\ carryFrom = 0

\* the capability when the goroutine starts: the local reader opens its file
\* in the goroutine; the remote reader has got its client from
\* setupCloudTest before the goroutine is started
CapabilityInit(v) ==
  /\ variant = v
  /\ cap = IF v = Remote THEN "open" ELSE "none"

Init ==
  /\ \E in \in Inputs : \E v \in Variants(in) : PipelineInit(in) /\ CapabilityInit(v)
  /\ StorageIdle

\* ---------------------------------------------------------------- producer
\* The outcomes of ReadAt(buf, offset) on the source: the io.ReaderAt
\* contract (n < len(buf) only with an error; io.EOF at the end of the
\* input, optional when the read ends exactly there), a failure after any
\* number of bytes, and the zero-byte read without error the loop guards
\* against.
ReadAt(off) ==
  LET rem == Len(src) - off
      m == Min(bufSize, rem)
  IN (IF m = bufSize THEN {[n |-> m, err |-> "nil"]} ELSE {})
       \cup (IF rem <= bufSize THEN {[n |-> m, err |-> "EOF"]} ELSE {})
       \cup {[n |-> k, err |-> "error"] : k \in 0..m}
       \cup {[n |-> 0, err |-> "nil"]}

\* what the slice bytes, which starts at index from of the array id, holds
\* after ReadAt has written k bytes read at offset off into the array target:
\* the same bytes, unless it is a window on that array
Window(bytes, id, from, target, off, k) ==
  IF id # target \/ bytes = <<>>
  THEN bytes
  ELSE [j \in 1..Len(bytes) |-> IF from + j <= k THEN src[off + from + j] ELSE bytes[j]]

\* the buffer after a read of k bytes at offset off into it
Filled(off, k) == Window(buf, bufId, 0, bufId, off, k)

\* the reset after a send, buf = make([]byte, BUFFER_SIZE): a new array;
\* the mutant keeps reading into the array it has published
SameBuf(id, b) == [id |-> id, bytes |-> b]
ResetBuf(id, b) == [id |-> id + 1, bytes |-> FreshBuf]

\* err != io.EOF is false: the branch that publishes the last, partial
\* chunk; the mutant takes it on every error
IsEOFAny(err) == TRUE
IsEOF(err) == err = "EOF"

\* the capability once the reader has passed its open step: os.Open gives
\* the local reader its file, the remote reader uses the client it has
Opened(v, c) == IF v = Local THEN "open" ELSE c

\* the capability after the goroutine's deferred calls: the local reader
\* closes the file it opened (before close(chnkStream), last deferred first),
\* the remote goroutine releases nothing
Released(v, c) == IF v = Local /\ c = "open" THEN "closed" ELSE c

\* buf[:n], the chunk that is sent; the mutant sends the whole buffer
ChunkWholeBuf(b, k) == b
Chunk(b, k) == SubSeq(b, 1, k)

\* offset += int64(n)
NextOffset(off, k) == off + k

\* where the goroutine goes when it leaves the loop: to its deferred
\* close(chnkStream); the mutant returns without closing after a read error
ExitToNoClose(reason) == IF reason = "error" THEN "done" ELSE "exit"
ExitTo(reason) == "exit"

\* where the producer goes once its send has completed: back to the read
\* after `chnkStream <- buf[:n]` in the loop body, out of the loop after the
\* send of the io.EOF branch; the mutant sends the same chunk again
AfterSendAgain(pc) == pc
AfterSend(pc) == IF pc = "send" THEN "read" ELSE ExitTo("eof")

\* where the producer stands once a read has filled the buffer: at its send
\* `chnkStream <- buf[:n]`, which blocks until the consumer receives (last:
\* the send of the io.EOF branch); the mutant goes on without waiting
AtSendNoWait(last) == IF last THEN "exit" ELSE "read"
AtSend(last) == IF last THEN "sendLast" ELSE "send"

\* os.Open(localFilePath) (NewCloudFileRequest in the GCP variant): on
\* failure the goroutine returns and the deferred close runs
ProducerOpen ==
  /\ ppc = "open"
  /\ \/ /\ ppc' = "read"
        /\ bufId' = bufId + 1
        /\ buf' = FreshBuf
        /\ cap' = Opened(variant, cap)
        /\ UNCHANGED stopReason
     \/ /\ ppc' = ExitTo("open")
        /\ stopReason' = "open"
        /\ UNCHANGED <<buf, bufId, cap>>
  /\ UNCHANGED <<svars, src, bufSize, cancelled, offset, n, closed, published, closeCnt,
                 readErr, variant, cvars>>

\* one iteration of the read loop up to its send or its break
ProducerRead ==
  /\ ppc = "read"
  /\ \E out \in ReadAt(offset) :
       /\ n' = out.n
       /\ readErr' = out.err
       /\ buf' = Filled(offset, out.n)
       /\ chnk' = Window(chnk, chnkBuf, 0, bufId, offset, out.n)
       /\ incompleteRecord' = Window(incompleteRecord, carryBuf, carryFrom, bufId, offset, out.n)
       /\ IF out.err # "nil"
          THEN IF ~IsEOF(out.err)
               THEN /\ ppc' = ExitTo("error")
                    /\ stopReason' = "error"
                    /\ UNCHANGED <<offset, published>>
               ELSE IF out.n > 0
               THEN /\ ppc' = AtSend(TRUE)
                    /\ published' = Append(published, Chunk(buf', out.n))
                    /\ UNCHANGED <<offset, stopReason>>
               ELSE /\ ppc' = ExitTo("eof")
                    /\ stopReason' = "eof"
                    /\ UNCHANGED <<offset, published>>
          ELSE IF out.n = 0
          THEN /\ ppc' = ExitTo("zero")
               /\ stopReason' = "zero"
               /\ UNCHANGED <<offset, published>>
          ELSE /\ offset' = NextOffset(offset, out.n)
               /\ ppc' = AtSend(FALSE)
               /\ published' = Append(published, Chunk(buf', out.n))
               /\ UNCHANGED stopReason
  /\ UNCHANGED <<svars, src, bufSize, cancelled, closed, closeCnt, bufId, kvars, crest>>

\* the deferred calls at goroutine exit: file.Close() in the local reader,
\* then close(chnkStream)
ProducerClose ==
  /\ ppc = "exit"
  /\ cap' = Released(variant, cap)
  /\ closed' = TRUE
  /\ closeCnt' = closeCnt + 1
  /\ ppc' = "done"
  /\ UNCHANGED <<svars, src, bufSize, cancelled, offset, buf, n, published, stopReason,
                 readErr, bufId, variant, cvars>>

\* the function that started the goroutine has returned: readFileChunks
\* returns the channel at once; readFileChunksGCP runs its deferred
\* teardown() first, which closes the storage client
Returned == variant = Local \/ cap = "closed"

\* defer teardown() of readFileChunksGCP: csc.Close() when the function
\* returns, which is as soon as the goroutine has been started
Teardown ==
  /\ variant = Remote
  /\ cap = "open"
  /\ cap' = "closed"
  /\ UNCHANGED <<svars, src, bufSize, cancelled, pvars, cvars, variant>>

\* ----------------------------------------------------------------- conduit
\* chnkStream is unbuffered: the send `chnkStream <- buf[:n]` and the
\* receive `case chnk, ok := <-chunkStream` complete together. The producer
\* then makes a fresh buffer (loop body) or leaves the loop (io.EOF branch);
\* the consumer starts a csv reader on the chunk.
Handoff ==
  /\ ppc \in {"send", "sendLast"}
  /\ cpc = "select"
  /\ Returned
  /\ chnk' = Chunk(buf, n)
  /\ chnkBuf' = bufId
  /\ received' = Append(received, chnk')
  /\ chnkCnt' = chnkCnt + 1
  /\ bufOffset' = 0 /\ lastOffset' = 0 /\ recCnt' = 0
  /\ cpc' = "parse"
  /\ ppc' = AfterSend(ppc)
  /\ IF ppc = "send"
     THEN /\ \E nb \in {ResetBuf(bufId, buf)} : bufId' = nb.id /\ buf' = nb.bytes
          /\ UNCHANGED stopReason
     ELSE stopReason' = "eof" /\ UNCHANGED <<buf, bufId>>
  /\ UNCHANGED <<svars, src, bufSize, cancelled, offset, n, closed, published, closeCnt,
                 readErr, kvars, carryBuf, carryFrom,
                 incompleteRecord, handled, carryBase, endedBy, parseErr,
                 handlerErr, handlerFailed, errAt>>

\* ---------------------------------------------------------------- consumer
\* total length of a sequence of chunks
RECURSIVE SumLen(_)
SumLen(cs) == IF cs = <<>> THEN 0 ELSE Len(Head(cs)) + SumLen(Tail(cs))

\* stream offset of the first byte of the chunk being parsed (history)
ChnkBase == SumLen(received) - Len(chnk)

\* the boundary heuristic: the record ends flush with the chunk, or has
\* fewer than 8 fields
IsDangling(record, last, cur, c) ==
  (cur = Len(c) /\ last < cur) \/ Len(record) < MinFields

\* completeRecord := append(incompleteRecord, chnk[:bufOffset]...)
CompleteRecord(carry, c, cur) == carry \o SubSeq(c, 1, cur)

\* incompleteRecord = chnk[lastOffset:]
Suffix(c, last) == Drop(c, last)

\* a carry that keeps the rebuilt bytes
KeptCarry(complete) == complete
\* incompleteRecord = []byte{} once the rebuilt bytes were taken
ClearedCarry(complete) == <<>>

\* number of leading bytes of bs that the csv reader skips as empty lines
\* before the first record: the offset of the first line, read as readLine
\* reads it from offset off on, that readRecord does not skip
RECURSIVE LeadingBlankFrom(_, _)
afterBlank(bs, off, l) ==
  IF l.err = "nil" /\ Len(l.line) = lengthNL(l.line)
  THEN LeadingBlankFrom(bs, l.off)
  ELSE off
LeadingBlankFrom(bs, off) == With(readLine(bs, off), LAMBDA l : afterBlank(bs, off, l))
LeadingBlank(bs) == LeadingBlankFrom(bs, 0)

\* a call of the record handler processCSVRecord, as history: the record,
\* the branch that made the call, and the stream offset of the first byte of
\* the record, which is the first record of the bytes parsed from offset base
Call(rec, via, base, parsed) ==
  [rec |-> rec, via |-> via, start |-> base + LeadingBlank(parsed)]

\* what the record handler may return: an error or nil (processCSVRecord
\* itself returns nil; its callers provide for err != nil)
HandlerErrs == BOOLEAN

\* where the consumer goes on after a handler call that returned herr: the
\* error is printed and nothing else; the mutant returns on an error
AfterHandlerStop(herr, pc) == IF herr THEN "done" ELSE pc
AfterHandler(herr, pc) == pc

\* err := processCSVRecord(rec); if err != nil { print }; go on at pc
Hand(rec, via, base, parsed, pc) ==
  \E herr \in HandlerErrs :
    /\ handled' = Append(handled, Call(rec, via, base, parsed))
    /\ handlerErr' = herr
    /\ handlerFailed' = (handlerFailed \/ herr)
    /\ cpc' = AfterHandler(herr, pc)

\* recs[0]; the mutant takes the last record
LastRec(records) == records[Len(records)]
FirstRec(records) == records[1]

\* the use made of the result recs of readCSVRecord, in the rebuild branch
\* and in the final flush alike: report the error, or hand recs[0] to the
\* record handler (an index out of range when recs is empty); then go on at pc
HandFirst(recs, via, base, parsed, pc) ==
  IF recs.err # "nil"
  THEN /\ parseErr' = TRUE
       /\ cpc' = pc
       /\ UNCHANGED <<handled, handlerErr, handlerFailed>>
  ELSE IF recs.records = <<>>
  THEN /\ cpc' = "panic"
       /\ UNCHANGED <<handled, parseErr, handlerErr, handlerFailed>>
  ELSE /\ Hand(FirstRec(recs.records), via, base, parsed, pc)
       /\ UNCHANGED parseErr

\* where the consumer goes when csvReader.Read() returned the error err: the
\* break leaves the record loop and the outer loop goes back to the select;
\* the mutant returns on an error other than io.EOF
AfterBreakStop(err) == IF err = "EOF" THEN "select" ELSE "done"
AfterBreak(err) == "select"

\* the body of the record loop after csvReader.Read() returned r: break on
\* an error, else update the offsets and classify the record: a dangling
\* first record is rebuilt from the carry and handed, a dangling later record
\* becomes the carry, any other record is handed
OnRecord(r) ==
  /\ recCnt' = recCnt + 1
  /\ errAt' = IF r.err \notin {"nil", "EOF"} THEN errAt \cup {chnkCnt} ELSE errAt
  /\ IF r.err # "nil"
     THEN /\ cpc' = AfterBreak(r.err)
          /\ parseErr' = (parseErr \/ r.err # "EOF")
          /\ UNCHANGED <<bufOffset, lastOffset, incompleteRecord, handled, carryBase,
                         handlerErr, handlerFailed, carryBuf, carryFrom>>
     ELSE /\ lastOffset' = bufOffset
          /\ bufOffset' = r.off
          /\ IF IsDangling(r.record, bufOffset, r.off, chnk)
             THEN IF recCnt + 1 = 1
                  THEN /\ incompleteRecord' =
                            ClearedCarry(CompleteRecord(incompleteRecord, chnk, r.off))
                       /\ \E recs \in {readCSVRecord(CompleteRecord(incompleteRecord, chnk, r.off))} :
                            HandFirst(recs, "carry",
                                      IF incompleteRecord # <<>> THEN carryBase ELSE ChnkBase,
                                      CompleteRecord(incompleteRecord, chnk, r.off),
                                      "parse")
                       /\ carryBuf' = 0 /\ carryFrom' = 0
                       /\ UNCHANGED carryBase
                  ELSE /\ incompleteRecord' = Suffix(chnk, bufOffset)
                       /\ carryBuf' = chnkBuf /\ carryFrom' = bufOffset
                       /\ carryBase' = ChnkBase + bufOffset
                       /\ cpc' = "parse"
                       /\ UNCHANGED <<handled, parseErr, handlerErr, handlerFailed>>
             ELSE /\ Hand(r.record, "normal", ChnkBase + bufOffset,
                          Suffix(chnk, bufOffset), "parse")
                  /\ UNCHANGED <<incompleteRecord, carryBase, parseErr, carryBuf, carryFrom>>

\* one iteration of the record loop on the current chunk; the csv reader
\* stands at bufOffset, the offset it reported after the previous record
ConsumerParse ==
  /\ cpc = "parse"
  /\ \E r \in {csvRead(chnk, bufOffset)} : OnRecord(r)
  /\ UNCHANGED <<svars, src, bufSize, cancelled, pvars, kvars, chnkCnt, chnk, received,
                 endedBy, chnkBuf>>

\* the receive reports the channel closed: flush the carry buffer as one
\* final record and return
ConsumerClosed ==
  /\ cpc = "select"
  /\ closed
  /\ Returned
  /\ IF Len(incompleteRecord) > 0
     THEN \E recs \in {readCSVRecord(incompleteRecord)} :
            HandFirst(recs, "flush", carryBase, incompleteRecord, "done")
     ELSE /\ cpc' = "done"
          /\ UNCHANGED <<handled, parseErr, handlerErr, handlerFailed>>
  /\ endedBy' = "closed"
  /\ UNCHANGED <<svars, src, bufSize, cancelled, pvars, kvars, chnkCnt, chnk, bufOffset,
                 lastOffset, recCnt, incompleteRecord, received, carryBase, errAt,
                 chnkBuf, carryBuf, carryFrom>>

\* the case <-ctx.Done() of the select can proceed; the mutant never sees
\* the cancellation
DoneNever == FALSE
DoneReady == cancelled

\* the calls of the record handler made when the cancellation is seen, for
\* a carry buffer that starts at stream offset base: none, the consumer
\* returns at once; the mutant flushes the carry as the closure does
DoneFlushes(carry, base) ==
  IF carry # <<>> /\ readCSVRecord(carry).err = "nil" /\ readCSVRecord(carry).records # <<>>
  THEN <<Call(FirstRec(readCSVRecord(carry).records), "flush", base, carry)>>
  ELSE <<>>
DoneHands(carry, base) == <<>>

\* case <-ctx.Done(): return
ConsumerTimeout ==
  /\ cpc = "select"
  /\ DoneReady
  /\ Returned
  /\ cpc' = "done"
  /\ endedBy' = "timeout"
  /\ handled' = handled \o DoneHands(incompleteRecord, carryBase)
  /\ UNCHANGED <<svars, src, bufSize, cancelled, pvars, kvars, chnkCnt, chnk, bufOffset,
                 lastOffset, recCnt, incompleteRecord, received, carryBase, parseErr,
                 handlerErr, handlerFailed, errAt, chnkBuf, carryBuf, carryFrom>>

\* defer cancel() of the test function: it runs when processCSVStreamRecord
\* has returned (or panics) and the test function unwinds
Cancel ==
  /\ ~cancelled
  /\ cpc \in {"done", "panic"}
  /\ cancelled' = TRUE
  /\ UNCHANGED <<svars, src, bufSize, pvars, cvars, kvars>>

\* The cancellation signal of the caller. ctx is a parameter of
\* processCSVStreamRecord; no statement of the repository cancels it while
\* the consumer runs (its tests cancel only by the deferred call above). The
\* specification describes "an external deadline/cancellation signal": this
\* step is that signal, given at any moment before the consumer has returned.
CallerCancel ==
  /\ ~cancelled
  /\ cpc \in {"select", "parse"}
  /\ cancelled' = TRUE
  /\ UNCHANGED <<svars, src, bufSize, pvars, cvars, kvars>>

Producer == ProducerOpen \/ ProducerRead \/ ProducerClose
Consumer == Teardown \/ ConsumerParse \/ ConsumerClosed \/ ConsumerTimeout

Next ==
  \/ ProducerOpen
  \/ ProducerRead
  \/ ProducerClose
  \/ Teardown
  \/ Handoff
  \/ ConsumerParse
  \/ ConsumerClosed
  \/ ConsumerTimeout
  \/ Cancel
  \/ CallerCancel

Spec == Init /\ [][Next]_vars

\* both goroutines get to run while they can take a step
FairSpec ==
  /\ Spec
  /\ WF_vars(Producer)
  /\ WF_vars(Handoff)
  /\ WF_vars(Consumer)

\* only the consumer is known to run: the producer may stall in a read for
\* ever
ConsumerFairSpec ==
  /\ Spec
  /\ WF_vars(Consumer)

\* ========================================================== storage client
\* Strings are sequences of one-character strings. The storage service is
\* the set of its objects; a call on it may fail for reasons of its own.
ErrFileNameMissing == "ErrFileNameMissing"
ErrBucketNameMissing == "ErrBucketNameMissing"
ErrFilePathMissing == "ErrFilePathMissing"
\* an error of the storage service or of a copy, wrapped
ErrWrapped == "error"
Nil == "nil"

Slash == "/"
Dot == "."
DotDot == <<Dot, Dot>>

\* the elements of a path: its maximal runs without a separator, left to
\* right; cur is the run being read from position i on
RECURSIVE Elements(_, _, _)
Elements(p, i, cur) ==
  IF i > Len(p)
  THEN IF cur = <<>> THEN <<>> ELSE <<cur>>
  ELSE IF p[i] = Slash
  THEN (IF cur = <<>> THEN <<>> ELSE <<cur>>) \o Elements(p, i + 1, <<>>)
  ELSE Elements(p, i + 1, Append(cur, p[i]))

\* filepath.Clean, element by element: "." is dropped, ".." removes the
\* element before it, is kept at the start of a path that is not rooted and
\* dropped at the root; out is the cleaned path so far
RECURSIVE CleanElements(_, _, _)
CleanElements(els, out, rooted) ==
  IF els = <<>> THEN out
  ELSE IF Head(els) = <<Dot>>
  THEN CleanElements(Tail(els), out, rooted)
  ELSE IF Head(els) = DotDot
  THEN IF out # <<>> /\ out[Len(out)] # DotDot
       THEN CleanElements(Tail(els), SubSeq(out, 1, Len(out) - 1), rooted)
       ELSE IF ~rooted
       THEN CleanElements(Tail(els), Append(out, DotDot), rooted)
       ELSE CleanElements(Tail(els), out, rooted)
  ELSE CleanElements(Tail(els), Append(out, Head(els)), rooted)

\* strings.Join(els, "/")
RECURSIVE JoinSlash(_)
JoinSlash(els) ==
  IF els = <<>> THEN <<>>
  ELSE IF Len(els) = 1 THEN Head(els)
  ELSE Head(els) \o <<Slash>> \o JoinSlash(Tail(els))

\* filepath.Clean on a slash-separated path
Clean(p) ==
  IF p = <<>> THEN <<Dot>>
  ELSE IF p[1] = Slash
  THEN <<Slash>> \o JoinSlash(CleanElements(Elements(p, 1, <<>>), <<>>, TRUE))
  ELSE IF CleanElements(Elements(p, 1, <<>>), <<>>, FALSE) = <<>>
  THEN <<Dot>>
  ELSE JoinSlash(CleanElements(Elements(p, 1, <<>>), <<>>, FALSE))

\* filepath.Join(a, b) for non-empty a and b
Join(a, b) == Clean(a \o <<Slash>> \o b)

\* fmt.Sprintf("%s/%s", a, b)
Sprintf(a, b) == a \o <<Slash>> \o b

\* the object name UploadFile and DownloadFile address: fPath
FilePath(r) == IF r.path # <<>> THEN Join(r.path, r.file) ELSE r.file

\* the object name DeleteObject addresses: objName
ObjName(r) == Sprintf(r.path, r.file)

\* cs.client.Bucket(bucket).Object(name)
Object(bucket, name) == <<bucket, name>>
Exists(key) == key \in DOMAIN objects

\* the objects after a write of data to key, and after the removal of key
Put(key, data) ==
  [k \in DOMAIN objects \cup {key} |-> IF k = key THEN data ELSE objects[k]]
Remove(key) == [k \in DOMAIN objects \ {key} |-> objects[k]]

\* the requests, the file contents and the object found in the bucket
Chars == {"d", Slash, Dot}
Paths == UNION {[1..k -> Chars] : k \in 0..MaxPathLen}
Requests == [bucket : {<<>>, <<"b">>}, path : Paths, file : {<<>>, <<"f">>}]
Datas == {<<"x", "y">>}
OldData == <<"o">>

\* a call and its return values (op, n, err), with the object name it
\* addressed, the bytes it transferred (the names it listed), whether the
\* service failed it and whether it made a call on the service at all
Result(op, cnt, err, name, data, fault, called) ==
  [op |-> op, n |-> cnt, err |-> err, name |-> name, data |-> data, fault |-> fault,
   called |-> called]

\* NewCloudFileRequest(bucketName, fileName, path, modTime): the request and
\* the error it returns
NewCloudFileRequest(bucketName, fileName, path) ==
  IF bucketName = <<>>
  THEN [req |-> ZeroRequest, err |-> ErrBucketNameMissing]
  ELSE [req |-> [bucket |-> bucketName, path |-> path, file |-> fileName], err |-> Nil]

\* the bucket may hold an object under the name the request uploads to
StorageInit ==
  /\ PipelineInit([src |-> <<>>, bufSize |-> 1])
  /\ CapabilityInit(Local)
  /\ req \in Requests
  /\ objects \in {NoObjects}
       \cup (IF req.bucket # <<>> /\ req.file # <<>>
             THEN {[k \in {Object(req.bucket, FilePath(req))} |-> OldData]}
             ELSE {})
  /\ ops = <<>>

\* io.Copy(wc, file): all of data, or an error after a proper prefix of it
Copies(data) ==
  {[written |-> data, err |-> Nil]}
    \cup {[written |-> SubSeq(data, 1, k), err |-> ErrWrapped] : k \in 0..(Len(data) - 1)}

\* wc.Close() commits the bytes written as the object, or fails and leaves
\* the bucket as it was; the service commits nothing to a bucket without a
\* name. The error of Close is logged by the deferred call, not returned.
Committed(bucket, close) == close = Nil /\ bucket # <<>>

\* what UploadFile returns after the copy: (0, wrapped error) or (nBytes, nil)
UploadReturn(copy, committed) ==
  IF copy.err # Nil THEN [n |-> 0, err |-> ErrWrapped]
  ELSE [n |-> Len(copy.written), err |-> Nil]

UploadFile ==
  /\ Len(ops) < MaxOps
  /\ IF req.file = <<>>
     THEN /\ ops' = Append(ops, Result("upload", 0, ErrFileNameMissing, <<>>, <<>>, FALSE, FALSE))
          /\ UNCHANGED objects
     ELSE \E data \in Datas, close \in {Nil, ErrWrapped} : \E copy \in Copies(data) :
            /\ objects' = IF Committed(req.bucket, close)
                          THEN Put(Object(req.bucket, FilePath(req)), copy.written)
                          ELSE objects
            /\ ops' = Append(ops,
                 Result("upload",
                        UploadReturn(copy, Committed(req.bucket, close)).n,
                        UploadReturn(copy, Committed(req.bucket, close)).err,
                        FilePath(req), data,
                        ~Committed(req.bucket, close) \/ copy.err # Nil, TRUE))
  /\ UNCHANGED <<req, pipevars>>

\* obj.Attrs fails when the object does not exist; obj.NewReader or io.Copy
\* may fail (fault); else the object's bytes are copied to the caller's file
DownloadFile ==
  /\ Len(ops) < MaxOps
  /\ IF req.file = <<>>
     THEN ops' = Append(ops, Result("download", 0, ErrFileNameMissing, <<>>, <<>>, FALSE, FALSE))
     ELSE IF ~Exists(Object(req.bucket, FilePath(req)))
     THEN ops' = Append(ops, Result("download", 0, ErrWrapped, FilePath(req), <<>>, FALSE, TRUE))
     ELSE \E fault \in BOOLEAN :
            ops' = Append(ops,
              IF fault
              THEN Result("download", 0, ErrWrapped, FilePath(req), <<>>, TRUE, TRUE)
              ELSE Result("download", Len(objects[Object(req.bucket, FilePath(req))]), Nil,
                          FilePath(req), objects[Object(req.bucket, FilePath(req))], FALSE, TRUE))
  /\ UNCHANGED <<req, objects, pipevars>>

\* the checks of DeleteObject, in their order; the mutant looks at the file
\* name before the path
DeleteCheckFileFirst(r) ==
  IF r.bucket = <<>> THEN ErrBucketNameMissing
  ELSE IF r.file = <<>> THEN ErrFileNameMissing
  ELSE IF r.path = <<>> THEN ErrFilePathMissing
  ELSE Nil
DeleteCheck(r) ==
  IF r.bucket = <<>> THEN ErrBucketNameMissing
  ELSE IF r.path = <<>> THEN ErrFilePathMissing
  ELSE IF r.file = <<>> THEN ErrFileNameMissing
  ELSE Nil

\* bucket.Object(objName).Delete(ctx) fails when the object does not exist,
\* or for a reason of the service (fault)
DeleteObject ==
  /\ Len(ops) < MaxOps
  /\ IF DeleteCheck(req) # Nil
     THEN /\ ops' = Append(ops, Result("delete", 0, DeleteCheck(req), <<>>, <<>>, FALSE, FALSE))
          /\ UNCHANGED objects
     ELSE IF ~Exists(Object(req.bucket, ObjName(req)))
     THEN /\ ops' = Append(ops, Result("delete", 0, ErrWrapped, ObjName(req), <<>>, FALSE, TRUE))
          /\ UNCHANGED objects
     ELSE \E fault \in BOOLEAN :
            /\ ops' = Append(ops, Result("delete", 0, IF fault THEN ErrWrapped ELSE Nil,
                                         ObjName(req), <<>>, fault, TRUE))
            /\ objects' = IF fault THEN objects ELSE Remove(Object(req.bucket, ObjName(req)))
  /\ UNCHANGED <<req, pipevars>>

\* the keys of the objects of a bucket, and their names
InBucket(bucket) == {k \in DOMAIN objects : k[1] = bucket}
Names(keys) == {k[2] : k \in keys}

\* bucket.Objects(ctx, nil) iterated to iterator.Done collects every name;
\* an error of it.Next() (fault) returns the names seen so far with it
ListObjects ==
  /\ Len(ops) < MaxOps
  /\ IF req.bucket = <<>>
     THEN ops' = Append(ops, Result("list", 0, ErrBucketNameMissing, <<>>, {}, FALSE, FALSE))
     ELSE \E fault \in BOOLEAN : \E seen \in SUBSET InBucket(req.bucket) :
            /\ ~fault => seen = InBucket(req.bucket)
            /\ ops' = Append(ops, Result("list", 0, IF fault THEN ErrWrapped ELSE Nil,
                                         <<>>, Names(seen), fault, TRUE))
  /\ UNCHANGED <<req, objects, pipevars>>

\* every object the iterator yields is deleted; an error of it.Next() or of
\* a Delete (fault) returns with the objects deleted so far gone
DeleteObjects ==
  /\ Len(ops) < MaxOps
  /\ IF req.bucket = <<>>
     THEN /\ ops' = Append(ops, Result("deleteAll", 0, ErrBucketNameMissing, <<>>, {}, FALSE, FALSE))
          /\ UNCHANGED objects
     ELSE \E fault \in BOOLEAN : \E gone \in SUBSET InBucket(req.bucket) :
            /\ ~fault => gone = InBucket(req.bucket)
            /\ objects' = [k \in DOMAIN objects \ gone |-> objects[k]]
            /\ ops' = Append(ops, Result("deleteAll", 0, IF fault THEN ErrWrapped ELSE Nil,
                                         <<>>, Names(gone), fault, TRUE))
  /\ UNCHANGED <<req, pipevars>>

\* the caller builds its request anew from the fields it has and keeps what
\* the constructor returns
NewRequest ==
  /\ Len(ops) < MaxOps
  /\ \E r \in {NewCloudFileRequest(req.bucket, req.file, req.path)} :
       /\ req' = r.req
       /\ ops' = Append(ops, Result("new", 0, r.err, <<>>, <<>>, FALSE, FALSE))
  /\ UNCHANGED <<objects, pipevars>>

StorageNext ==
  \/ UploadFile
  \/ DownloadFile
  \/ DeleteObject
  \/ ListObjects
  \/ DeleteObjects
  \/ NewRequest

StorageSpec == StorageInit /\ [][StorageNext]_vars

\* ============================================================== properties
\* the records handed to the record handler, in the order of the calls
Emitted == [i \in 1..Len(handled) |-> handled[i].rec]

\* no byte of bs is a quote or a carriage return
QuoteFree(bs) == \A i \in 1..Len(bs) : bs[i] \notin {Quote, CR}

\* the records of the whole stream parsed in one pass
OnePass == readCSVRecord(src).records

\* the run ended by conduit closure after the producer reached the end of
\* the stream, and nobody cancelled
CleanRun ==
  cpc = "done" /\ endedBy = "closed" /\ stopReason = "eof" /\ ~cancelled

\* concatenation of a sequence of sequences
RECURSIVE Cat(_)
Cat(ss) == IF ss = <<>> THEN <<>> ELSE Head(ss) \o Cat(Tail(ss))

IsPrefix(s, t) == Len(s) <= Len(t) /\ SubSeq(t, 1, Len(s)) = s

IsPayload(b) == b \notin {Comma, NL}
\* the bytes of a stream that are not separators
Payload(bs) == SelectSeq(bs, IsPayload)
\* the bytes of the fields handed to the handler, in emission order
EmittedPayload == Cat([i \in 1..Len(handled) |-> Cat(handled[i].rec)])


RecAB == <<<<"a">>, <<"b">>>>
RecCD == <<<<"c">>, <<"d">>>>

\* C1 - Boundary independence: in a run that ends by closure after the
\* producer read the stream to its end, without cancellation, the records
\* handed to the handler are, in order, the records of the one-pass parse of
\* the stream (stated for the streams of the format: no quoting).
C1_BoundaryIndependence ==
  (CleanRun /\ QuoteFree(src)) => Emitted = OnePass

\* C2 - No loss, no duplication: in such a run without any parse error, on a
\* stream whose only special bytes are the separators, the bytes of the
\* handed records concatenated in emission order are the stream minus its
\* separators.
C2_NoLossNoDup ==
  (CleanRun /\ ~parseErr /\ QuoteFree(src)) => EmittedPayload = Payload(src)

\* C3 - Stream order: of any two records handed to the handler, the one
\* handed later does not start earlier in the source stream.
C3_StreamOrder ==
  \A i, j \in 1..Len(handled) :
    i < j => handled[i].start <= handled[j].start

\* C4 - Scenario mid-record split: a|b\nc|d\n in chunks of 3 bytes hands
\* exactly [a,b] and then [c,d], the second rebuilt through the carry buffer.
C4_MidRecordSplit ==
  (src = StreamAB /\ bufSize = 3 /\ CleanRun)
    => (Emitted = <<RecAB, RecCD>> /\ handled[2].via = "carry")

\* C5 - Scenario exact multiple: a|b\nc|d\n in chunks of 4 bytes hands
\* exactly [a,b] and then [c,d], and the carry buffer is empty once the
\* conduit is closed.
C5_ExactMultiple ==
  (src = StreamAB /\ bufSize = 4)
    => /\ closed => incompleteRecord = <<>>
       /\ CleanRun => Emitted = <<RecAB, RecCD>>

C5_Witness ==
  src = StreamAB /\ bufSize = 4 /\ CleanRun /\ Len(handled) = 2 /\ Len(received) = 2

\* offset of the first byte of the last line of a stream
LastRecStart(bs) ==
  IF \E i \in 1..Len(bs) : bs[i] = NL
  THEN CHOOSE i \in 1..Len(bs) : bs[i] = NL /\ \A j \in (i + 1)..Len(bs) : bs[j] # NL
  ELSE 0

\* the calls of the handler for the record that starts at stream offset o
CallsAt(o) == {i \in 1..Len(handled) : handled[i].start = o}

\* C6 - Trailing record without terminator: when the stream does not end
\* with a terminator and its last record lies entirely inside the final
\* chunk, that record is handed to the handler exactly once, not dropped and
\* not duplicated (the claim adds that the call is the one of the
\* end-of-stream flush; the formula states the part every reading of the
\* claim shares).
C6_TrailingRecord ==
  (/\ CleanRun
   /\ src # <<>> /\ QuoteFree(src) /\ src[Len(src)] # NL
   /\ received # <<>>
   /\ LastRecStart(src) >= Len(src) - Len(received[Len(received)]))
    => /\ Cardinality(CallsAt(LastRecStart(src))) = 1
       /\ \A i \in CallsAt(LastRecStart(src)) :
            handled[i].rec = OnePass[Len(OnePass)]

\* C7 - Conduit order: the chunks the consumer has received are always a
\* prefix of the chunks the producer has published, and all of them once the
\* consumer has seen the closure.
C7_ConduitOrder ==
  /\ IsPrefix(received, published)
  /\ endedBy = "closed" => received = published

C7_Witness ==
  Len(received) >= 2 /\ received = published /\ endedBy = "closed"

\* C8 - Tiling: every published chunk has between 1 and bufSize bytes, the
\* published chunks concatenated are a prefix of the source, every read is
\* issued at the offset equal to their total length, and when the producer
\* stops on end-of-stream they are the whole source.
C8_Tiling ==
  /\ \A i \in 1..Len(published) :
       Len(published[i]) >= 1 /\ Len(published[i]) <= bufSize
  /\ IsPrefix(Cat(published), src)
  /\ ppc = "read" => offset = Len(Cat(published))
  /\ published = <<>> /\ ppc \in {"open", "read"} => offset = 0
  /\ stopReason = "eof" => Cat(published) = src

C8_Witness ==
  /\ stopReason = "eof"
  /\ Len(published) >= 2
  /\ Len(published[Len(published)]) < bufSize

\* C9 - Close protocol: the conduit is never closed twice, it has been
\* closed exactly once when the producer has terminated, whatever made it
\* leave its loop, and once it is closed no chunk is published or received.
C9_CloseProtocol ==
  /\ [](closeCnt <= 1 /\ (closed <=> closeCnt = 1))
  /\ [](ppc = "done" => closeCnt = 1)
  /\ [][closed => (published' = published /\ received' = received /\ closed')]_vars

C9_Witness ==
  /\ ppc = "done" /\ stopReason = "error" /\ closeCnt = 1
  /\ Len(published) >= 1

\* a step of the producer, of the consumer, or of both (the handoff)
Progress ==
  \/ ProducerOpen \/ ProducerRead \/ ProducerClose
  \/ Handoff
  \/ Teardown \/ ConsumerParse \/ ConsumerClosed \/ ConsumerTimeout

\* C10 - The consumer is never left blocked: as long as nobody has cancelled
\* and producer and consumer have not both terminated, one of them can take
\* a step; and under fair scheduling every run without cancellation reaches
\* the state where the conduit is closed and the consumer has returned.
C10_NeverBlocked ==
  /\ []((~cancelled /\ ~(ppc = "done" /\ cpc = "done")) => ENABLED Progress)
  /\ <>(cancelled \/ (closed /\ ppc = "done" /\ cpc = "done"))

C10_Witness ==
  /\ ~cancelled /\ stopReason = "error" /\ Len(received) >= 1
  /\ closed /\ ppc = "done" /\ cpc = "done" /\ endedBy = "closed"

\* C11 - Backpressure: the producer has at most one chunk that the consumer
\* has not accepted, and it is at its next read, or past its loop, only when
\* the consumer has accepted every chunk published so far.
C11_Backpressure ==
  /\ Len(published) - Len(received) \in {0, 1}
  /\ ppc \in {"read", "exit", "done"} => received = published
  /\ Len(published) > Len(received) => ppc \in {"send", "sendLast"}

C11_Witness ==
  /\ Len(received) >= 1 /\ Len(published) = Len(received) + 1
  /\ ppc = "send" /\ cpc = "parse"

\* C12 - Cancellation of a waiting consumer: once cancellation is signalled
\* and the consumer is at its wait, the consumer eventually returns (it does
\* not panic), even if the producer never takes another step.
C12_CancelWaiting ==
  (cancelled /\ cpc = "select") ~> (cpc = "done")

C12_Witness ==
  /\ cancelled /\ cpc = "done" /\ endedBy = "timeout"
  /\ ppc = "read" /\ ~closed /\ Len(received) >= 1

\* C13 - No chunk accepted after cancellation: once cancellation has been
\* signalled no step makes the consumer receive a chunk.
C13_NoChunkAfterCancel ==
  [][cancelled => received' = received]_vars

\* C14 - Producer stops on cancellation: once cancellation has been
\* signalled and the consumer has returned, the producer eventually
\* terminates with the conduit closed.
C14_ProducerStops ==
  (cancelled /\ cpc = "done") ~> (ppc = "done" /\ closed)

\* C15 - Single dangling carry: the carry buffer is never longer than the
\* buffer size, and it is always a suffix of one received chunk.
C15_CarryBound ==
  /\ Len(incompleteRecord) <= bufSize
  /\ incompleteRecord # <<>> =>
       \E i \in 1..Len(received) :
         /\ Len(incompleteRecord) <= Len(received[i])
         /\ incompleteRecord = Drop(received[i], Len(received[i]) - Len(incompleteRecord))

C15_Witness ==
  /\ incompleteRecord # <<>> /\ Len(received) >= 2
  /\ cpc = "select" /\ Len(handled) >= 1

\* C16 - A parse failure is confined to its chunk: a chunk whose record loop
\* hit an error other than end-of-input is not parsed any further; the
\* consumer is back at its wait, where it can receive the next chunk, and
\* every received chunk is parsed; the consumer returns only on closure or
\* on cancellation, and when it returns on closure it has received every
\* published chunk.
C16_ParseFailureConfined ==
  /\ chnkCnt \in errAt => cpc # "parse"
  /\ (cpc = "select" /\ chnkCnt >= 1) => recCnt >= 1
  /\ (errAt # {} /\ cpc = "select" /\ ppc \in {"send", "sendLast"}) => ENABLED Handoff
  /\ cpc = "done" => endedBy \in {"closed", "timeout"}
  /\ (cpc = "done" /\ ~cancelled) => endedBy = "closed"
  /\ endedBy = "closed" => received = published

C16_Witness ==
  /\ 1 \in errAt /\ Len(received) >= 2 /\ endedBy = "closed" /\ cpc = "done"
  /\ Len(handled) >= 1
  /\ handled[Len(handled)].start >= Len(received[1])

\* C17 - Handler errors do not halt the pipeline: a step that calls the
\* record handler makes exactly one call and, whatever the handler returned,
\* goes on where the branch of the call goes on (the record loop, or the
\* return after the final flush) with the carry buffer that branch leaves
\* (emptied by the rebuild, untouched otherwise); the consumer returns only
\* on closure or on cancellation.
C17_HandlerErrors ==
  /\ [][Len(handled') > Len(handled) =>
          /\ Len(handled') = Len(handled) + 1
          /\ cpc' = IF handled'[Len(handled')].via = "flush" THEN "done" ELSE "parse"
          /\ incompleteRecord' =
               IF handled'[Len(handled')].via = "carry" THEN <<>> ELSE incompleteRecord
          /\ endedBy' = IF handled'[Len(handled')].via = "flush" THEN "closed" ELSE endedBy
     ]_vars
  /\ [](cpc = "done" => endedBy \in {"closed", "timeout"})

C17_Witness ==
  /\ handlerFailed /\ ~handlerErr /\ Len(handled) >= 2
  /\ endedBy = "closed" /\ cpc = "done"

\* the records the csv reader finds in data from offset off on, each with
\* the stream offset of its first byte, data standing at stream offset base
RECURSIVE RecsFrom(_, _, _)
RecsFrom(data, off, base) ==
  With(csvRead(data, off),
       LAMBDA r : IF r.err # "nil" THEN {}
                  ELSE {[rec |-> r.record,
                         start |-> base + off + LeadingBlank(Drop(data, off))]}
                         \cup RecsFrom(data, r.off, base))

\* the calls of the handler made by the end-of-stream flush
Flushes == {i \in 1..Len(handled) : handled[i].via = "flush"}

\* C18 - End-of-stream flush: no flush call is made before the consumer has
\* seen the closure; once it has, the consumer has returned, and: with an
\* empty carry buffer the flush handed nothing; with a carry that does not
\* parse it reported the error and handed nothing; with a carry that parses
\* it made exactly one call, the last of the run, with the first record of
\* the carry, and every record contained in the carry has been handed.
C18_Flush ==
  /\ endedBy # "closed" => Flushes = {}
  /\ endedBy = "closed" =>
       /\ cpc = "done"
       /\ IF incompleteRecord = <<>>
          THEN Flushes = {}
          ELSE IF readCSVRecord(incompleteRecord).err # "nil"
          THEN Flushes = {} /\ parseErr
          ELSE /\ Flushes = {Len(handled)}
               /\ handled[Len(handled)].rec = readCSVRecord(incompleteRecord).records[1]
               /\ handled[Len(handled)].start = carryBase + LeadingBlank(incompleteRecord)
               /\ \A cr \in RecsFrom(incompleteRecord, 0, carryBase) :
                    \E i \in 1..Len(handled) :
                      handled[i].rec = cr.rec /\ handled[i].start = cr.start

C18_Witness ==
  /\ endedBy = "closed" /\ cpc = "done" /\ Flushes # {}
  /\ Len(readCSVRecord(incompleteRecord).records) >= 2

\* C19 - Upload/download round trip: when UploadFile has returned without
\* error and the next call, DownloadFile with the same request, returns
\* without error, the download addressed the object name of the upload, read
\* the bytes the upload was given and returned the byte count the upload
\* returned.
C19_RoundTrip ==
  \A i \in 1..(Len(ops) - 1) :
    (/\ ops[i].op = "upload" /\ ops[i].err = Nil
     /\ ops[i + 1].op = "download" /\ ops[i + 1].err = Nil)
      => /\ ops[i + 1].name = ops[i].name
         /\ ops[i + 1].data = ops[i].data
         /\ ops[i + 1].n = ops[i].n

\* C20 - Upload then delete: for a request with bucket, path and file,
\* DeleteObject called next after an UploadFile addresses the object name
\* the upload addressed; when the upload was committed and the service did
\* not fail the deletion, DeleteObject returns no error and the object is
\* gone.
C20_UploadDelete ==
  (/\ Len(ops) >= 2
   /\ ops[Len(ops) - 1].op = "upload" /\ ops[Len(ops)].op = "delete"
   /\ req.bucket # <<>> /\ req.path # <<>> /\ req.file # <<>>)
    => /\ ops[Len(ops)].name = ops[Len(ops) - 1].name
       /\ (/\ ops[Len(ops) - 1].err = Nil /\ ~ops[Len(ops) - 1].fault
           /\ ~ops[Len(ops)].fault)
            => /\ ops[Len(ops)].err = Nil
               /\ ~Exists(Object(req.bucket, ops[Len(ops) - 1].name))

\* the record the reader returns next on the current chunk
NextRecord == csvRead(chnk, bufOffset)

\* the consumer is about to parse a record that it will classify dangling
DanglingNext ==
  /\ cpc = "parse"
  /\ NextRecord.err = "nil"
  /\ IsDangling(NextRecord.record, bufOffset, NextRecord.off, chnk)

\* C21 - Dangling first record without a carry: when the first record parsed
\* on a chunk is classified dangling and the carry buffer is empty, the step
\* hands nothing to the handler and the carry buffer becomes the chunk's
\* unconsumed suffix.
C21_DeferFirstDangling ==
  [][(DanglingNext /\ recCnt = 0 /\ recCnt' = 1 /\ incompleteRecord = <<>>)
       => /\ handled' = handled
          /\ incompleteRecord' = Suffix(chnk, bufOffset)]_vars

\* the carry buffer holds a suffix of the chunk being processed
CopiedHere ==
  /\ chnkCnt >= 1
  /\ incompleteRecord # <<>>
  /\ carryBase >= ChnkBase

\* C22 - Stop after the copy: once the carry buffer holds a suffix of the
\* current chunk, no further step on that chunk reads a record, hands one to
\* the handler or overwrites the carry; the next consumer step is the receipt
\* of the next chunk or the end of the run.
C22_StopAfterCopy ==
  [][(CopiedHere /\ cpc = "parse")
       => /\ bufOffset' = bufOffset
          /\ handled' = handled
          /\ incompleteRecord' = incompleteRecord]_vars

\* C23 - The carry is lost only to the handler: a step that empties a
\* non-empty carry buffer or replaces its bytes hands the carried record to
\* the handler in the same step; in particular the carry is kept when the
\* rebuilt record does not parse, and it is not overwritten.
C23_CarryKept ==
  [][(incompleteRecord # <<>> /\ incompleteRecord' # incompleteRecord)
       => /\ readCSVRecord(CompleteRecord(incompleteRecord, chnk, bufOffset')).err = "nil"
          /\ Len(handled') = Len(handled) + 1
          /\ handled'[Len(handled')].via = "carry"
          /\ handled'[Len(handled')].start = carryBase + LeadingBlank(incompleteRecord)]_vars

\* a step of the producer alone: it moves on and nothing is handed over
ProducerStep == ppc' # ppc /\ chnkCnt' = chnkCnt

\* C24 - Chunk ownership: the array a read writes into is neither the one
\* behind the chunk the consumer holds nor the one behind the carry buffer,
\* and no step of the producer changes the bytes of that chunk or of the
\* carry buffer.
C24_ChunkOwnership ==
  [][ProducerStep
       => /\ ppc = "read" => bufId \notin {chnkBuf, carryBuf}
          /\ chnk' = chnk
          /\ incompleteRecord' = incompleteRecord]_vars

\* the producer has read again while the consumer parses a chunk and holds a
\* carry that is a suffix of it
C24_Witness ==
  /\ ppc \in {"send", "sendLast"}
  /\ cpc = "parse" /\ chnkCnt >= 1
  /\ incompleteRecord # <<>> /\ carryBuf = chnkBuf
  /\ bufId > chnkBuf

\* C25 - Capability lifetime: while the producer is in its read loop, from
\* its first read to its last, the capability is open (it has not been
\* released), with the local reader and with the remote reader.
C25_CapabilityLifetime ==
  ppc \in {"read", "send", "sendLast"} => cap = "open"

\* C26 - Read error: after a read that returned an error other than io.EOF
\* the producer has left its loop, the published chunks are exactly the
\* bytes read before that read (nothing of the failing read, whatever n it
\* returned), and the conduit is closed when the goroutine ends; a consumer
\* that has seen the closure has received the published chunks and has
\* flushed its carry buffer as at the end of a stream.
C26_ReadError ==
  readErr = "error" =>
    /\ ppc \in {"exit", "done"}
    /\ stopReason = "error"
    /\ Cat(published) = SubSeq(src, 1, offset)
    /\ ppc = "done" => closed
    /\ endedBy = "closed" =>
         /\ received = published
         /\ IF incompleteRecord = <<>> \/ readCSVRecord(incompleteRecord).err # "nil"
            THEN Flushes = {}
            ELSE Flushes = {Len(handled)}

C26_Witness ==
  /\ readErr = "error" /\ n > 0
  /\ endedBy = "closed" /\ received # <<>> /\ Flushes # {}

\* C27 - No flush on cancellation: the step in which the consumer observes
\* the cancellation and every later step leave the calls of the handler as
\* they are; a consumer that ended by cancellation has returned and has made
\* no flush call, whatever the carry buffer holds.
C27_NoFlushOnCancel ==
  /\ [](endedBy = "timeout" => cpc = "done" /\ Flushes = {})
  /\ [][endedBy' = "timeout" => handled' = handled]_vars

\* the consumer has returned on cancellation with a carry that would have
\* parsed
C27_Witness ==
  /\ endedBy = "timeout"
  /\ incompleteRecord # <<>>
  /\ readCSVRecord(incompleteRecord).err = "nil"

\* the call made by the step, when the step is a call on the client
Returns == ops'[Len(ops')]

\* C28 - Request validation: a call on a request that lacks a required field
\* returns the error of the first missing field, makes no call on the
\* storage service and leaves the objects as they are: UploadFile and
\* DownloadFile return (0, ErrFileNameMissing) for an empty file name,
\* ListObjects and DeleteObjects return ErrBucketNameMissing for an empty
\* bucket, DeleteObject checks bucket, then path, then file, and
\* NewCloudFileRequest returns ErrBucketNameMissing for an empty bucket name.
C28_Validation ==
  [][Len(ops') = Len(ops) + 1 =>
       /\ (Returns.op \in {"upload", "download"} /\ req.file = <<>>)
            => /\ Returns.n = 0 /\ Returns.err = ErrFileNameMissing
               /\ ~Returns.called /\ objects' = objects
       /\ (Returns.op \in {"list", "deleteAll"} /\ req.bucket = <<>>)
            => /\ Returns.err = ErrBucketNameMissing
               /\ ~Returns.called /\ objects' = objects
       /\ (Returns.op = "delete" /\ (req.bucket = <<>> \/ req.path = <<>> \/ req.file = <<>>))
            => /\ Returns.err = IF req.bucket = <<>> THEN ErrBucketNameMissing
                                ELSE IF req.path = <<>> THEN ErrFilePathMissing
                                ELSE ErrFileNameMissing
               /\ ~Returns.called /\ objects' = objects
       /\ (Returns.op = "new" /\ req.bucket = <<>>)
            => /\ Returns.err = ErrBucketNameMissing
               /\ ~Returns.called /\ objects' = objects]_vars

\* DeleteObject has just rejected a request that lacks both path and file,
\* after UploadFile had rejected it
C28_Witness ==
  /\ Len(ops) = 2
  /\ req.bucket # <<>> /\ req.path = <<>> /\ req.file = <<>>
  /\ ops[1].op = "upload" /\ ops[1].err = ErrFileNameMissing
  /\ ops[2].op = "delete" /\ ops[2].err = ErrFilePathMissing

\* C29 - Upload commit: when UploadFile, called on a request that names a
\* bucket, returns (n, nil), the object it addressed is in the bucket and
\* holds the n bytes that were copied.
C29_UploadCommitted ==
  [][(/\ Len(ops') = Len(ops) + 1 /\ Returns.op = "upload" /\ Returns.err = Nil
      /\ req.bucket # <<>>)
       => /\ Object(req.bucket, Returns.name) \in DOMAIN objects'
          /\ objects'[Object(req.bucket, Returns.name)] = Returns.data
          /\ Returns.n = Len(Returns.data)]_vars

=============================================================================
